---- MODULE Spec2Model ----
(***************************************************************************)
(* Model of packages/server/src/gas/execute_calldatas_fork.rs: one request *)
(* to execute_calldatas_fork, from the resolution of the RPC endpoint to   *)
(* the collection of the per-call results.  The remote endpoint, the       *)
(* process environment and the request are the nondeterministic inputs.    *)
(* An Option<T> of the source is a set with at most one element.           *)
(***************************************************************************)
EXTENDS Integers, Sequences, FiniteSets, TLC

\* ---------------------------------------------------------------- bounds
MaxCalls == 2      \* longest input call sequence
MaxHead == 2       \* highest block the remote chain reaches
MaxVal == 1        \* largest word a set(uint256) call stores

\* ---------------------------------------------------------------- options
None == {}
Some(x) == {x}
IsSome(o) == o # {}
Unwrap(o) == CHOOSE x \in o : TRUE

\* ---------------------------------------------------------------- inputs
\* Two addresses: the remote chain holds a contract at "a1" and nothing at "a2".
Addrs == {"a1", "a2"}

\* The endpoints a request can name, the last one not a parseable URL.
CustomUrls == {"custom_url", "not a url"}

\* chain ids a request can name: two registry chains and one that is not
\* among the seven of CHAIN_RPC_URLS
ChainIds == {1, 8453, 999}

\* The bytecode of tests::test_simple_storage_contract and its selectors:
\* set(uint256) 0x60fe47b1, get() 0x6d4ce63c, getBlockNumber() 0x42cbb15c;
\* any other selector falls to the dispatcher's revert.
StorageCode == "simple_storage"
Calldatas == [sel : {"set"}, arg : 1..MaxVal]
               \cup [sel : {"get", "getBlockNumber", "unknown"}, arg : {0}]

\* struct Call; value is always 0 here, as in the test.
Call == [calldata : Calldatas, value : {0}, caller : {"a2"}]

\* struct ForkConfig
ForkConfig == [rpc_url : {None} \cup {Some(u) : u \in CustomUrls},
               chain_id : {None} \cup {Some(c) : c \in ChainIds},
               block_number : {None} \cup {Some(n) : n \in 1..MaxHead}]

\* The process environment: the variables CHAIN_RPC_URLS and the default read.
EnvNames == {"BASE_RPC", "ETH_RPC", "ARBITRUM_RPC", "OPTIMISM_RPC",
             "POLYGON_RPC", "BNB_RPC", "AVALANCHE_RPC"}
Environments == {e \in [EnvNames -> {None, Some("base_url"), Some("eth_url")}] :
                    /\ e["BASE_RPC"] \in {None, Some("base_url")}
                    /\ e["ETH_RPC"] \in {None, Some("eth_url")}
                    /\ \A n \in EnvNames \ {"BASE_RPC", "ETH_RPC"} : e[n] = None}

\* ExecuteCalldatasRequest::trace_mode: absent, or one of the strings the
\* route's comment lists
TraceModes == {None} \cup {Some(m) : m \in {"call", "jump", "jumpSimple",
                                            "debug", "none"}}

SeqsUpTo(S, n) == UNION {[1..k -> S] : k \in 0..n}

VARIABLES
    env_vars,       \* the process environment
    address,        \* argument address
    calls,          \* argument calls
    fork_config,    \* argument fork_config: Option<ForkConfig>
    trace_mode,     \* the request's trace_mode: Option<String>
    head,           \* the remote chain's latest block
    pc,             \* position in execute_calldatas_fork
    rpc,            \* Option: the resolved endpoint
    rpc_source,     \* which arm of the match resolved it
    block_id,       \* Option: "latest" or a block number
    reads,          \* the three futures of try_join!
    rpc_chain_id,   \* Option: chain id, reported then overridden
    block,          \* Option<Block> the endpoint answered
    env,            \* Option<Env>
    fork_block,     \* Option: the block the backend reads remote state at
    db_accounts,    \* the backend's account cache, Addrs -> Option<AccountInfo>
    db_storage,     \* the backend's cache of slot 0 of address
    next_call,      \* index of the call the iterator yields next
    results,        \* the ExecutionResults collected so far
    outcome,        \* what the function returned
    net_requests,   \* requests sent to the endpoint so far
    vm_calls        \* transact_raw invocations so far

vars == <<env_vars, address, calls, fork_config, trace_mode, head, pc, rpc, rpc_source,
          block_id, reads, rpc_chain_id, block, env, fork_block, db_accounts,
          db_storage, next_call, results, outcome, net_requests, vm_calls>>

request == <<env_vars, address, calls, fork_config, trace_mode>>

\* ---------------------------------------------------------------- results
Pending == [tag |-> "pending", msg |-> "", value |-> <<>>]
Ok(v) == [tag |-> "ok", msg |-> "", value |-> v]
Err(m) == [tag |-> "err", msg |-> m, value |-> <<>>]
Panic(m) == [tag |-> "panic", msg |-> m, value |-> <<>>]

\* ---------------------------------------------------------------- registry
\* static CHAIN_RPC_URLS: the chains whose variable is set, each with its URL
CHAIN_RPC_URLS(e) ==
    LET entries == {<<8453, "BASE_RPC">>, <<1, "ETH_RPC">>,
                    <<42161, "ARBITRUM_RPC">>, <<10, "OPTIMISM_RPC">>,
                    <<137, "POLYGON_RPC">>, <<56, "BNB_RPC">>,
                    <<43114, "AVALANCHE_RPC">>}
    IN  {<<p[1], Unwrap(e[p[2]])>> : p \in {q \in entries : IsSome(e[q[2]])}}

RegistryGet(e, chain_id) ==
    {p[2] : p \in {q \in CHAIN_RPC_URLS(e) : q[1] = chain_id}}

\* ---------------------------------------------------------------- resolver
MutResolveChainFirst(fc, e) ==
    IF IsSome(fc) /\ IsSome(Unwrap(fc).chain_id)
    THEN LET url == RegistryGet(e, Unwrap(Unwrap(fc).chain_id))
         IN  IF IsSome(url)
             THEN [ok |-> TRUE, url |-> Unwrap(url), source |-> "registry", msg |-> ""]
             ELSE [ok |-> FALSE, url |-> "", source |-> "registry",
                   msg |-> "No RPC URL configured for chain ID"]
    ELSE IF IsSome(fc) /\ IsSome(Unwrap(fc).rpc_url)
    THEN [ok |-> TRUE, url |-> Unwrap(Unwrap(fc).rpc_url), source |-> "explicit",
          msg |-> ""]
    ELSE IF IsSome(e["BASE_RPC"])
         THEN [ok |-> TRUE, url |-> Unwrap(e["BASE_RPC"]), source |-> "default",
               msg |-> ""]
         ELSE [ok |-> FALSE, url |-> "", source |-> "default",
               msg |-> "BASE_RPC environment variable not set"]

MutResolveFallsBack(fc, e) ==
    IF IsSome(fc) /\ IsSome(Unwrap(fc).rpc_url)
    THEN [ok |-> TRUE, url |-> Unwrap(Unwrap(fc).rpc_url), source |-> "explicit",
          msg |-> ""]
    ELSE IF IsSome(fc) /\ IsSome(Unwrap(fc).chain_id)
            /\ IsSome(RegistryGet(e, Unwrap(Unwrap(fc).chain_id)))
    THEN [ok |-> TRUE, url |-> Unwrap(RegistryGet(e, Unwrap(Unwrap(fc).chain_id))),
          source |-> "registry", msg |-> ""]
    ELSE IF IsSome(e["BASE_RPC"])
         THEN [ok |-> TRUE, url |-> Unwrap(e["BASE_RPC"]), source |-> "default",
               msg |-> ""]
         ELSE [ok |-> TRUE, url |-> "localhost", source |-> "default", msg |-> ""]

\* let rpc = match &fork_config { ... }
ResolveRpc(fc, e) ==
    IF IsSome(fc) /\ IsSome(Unwrap(fc).rpc_url)
    THEN [ok |-> TRUE, url |-> Unwrap(Unwrap(fc).rpc_url), source |-> "explicit",
          msg |-> ""]
    ELSE IF IsSome(fc) /\ IsSome(Unwrap(fc).chain_id)
    THEN LET url == RegistryGet(e, Unwrap(Unwrap(fc).chain_id))
         IN  IF IsSome(url)
             THEN [ok |-> TRUE, url |-> Unwrap(url), source |-> "registry", msg |-> ""]
             ELSE [ok |-> FALSE, url |-> "", source |-> "registry",
                   msg |-> "No RPC URL configured for chain ID"]
    ELSE IF IsSome(e["BASE_RPC"])
         THEN [ok |-> TRUE, url |-> Unwrap(e["BASE_RPC"]), source |-> "default",
               msg |-> ""]
         ELSE [ok |-> FALSE, url |-> "", source |-> "default",
               msg |-> "BASE_RPC environment variable not set"]

\* rpc.parse()?
ParseUrl(url) == url # "not a url"

MutBlockIdLatest(fc) == [latest |-> TRUE, number |-> 0]

\* let block_id = match &fork_config { ... }
BlockIdOf(fc) ==
    IF IsSome(fc) /\ IsSome(Unwrap(fc).block_number)
    THEN [latest |-> FALSE, number |-> Unwrap(Unwrap(fc).block_number)]
    ELSE [latest |-> TRUE, number |-> 0]

\* ---------------------------------------------------------------- endpoint
\* What the endpoint behind a URL answers to eth_chainId.
RemoteChainId(url) ==
    CASE url = "base_url" -> 8453
      [] url = "eth_url" -> 1
      [] OTHER -> 5

\* The header of block n; a header can come without its number.
Header(n, numbered) ==
    [number |-> IF numbered THEN Some(n) ELSE None,
     timestamp |-> 100 + n,
     gas_limit |-> 30 + n]

\* What the endpoint answers to get_block(block_id) when its head is h.
RemoteBlocks(id, h) ==
    IF id.latest
    THEN {Some(Header(h, nb)) : nb \in BOOLEAN}
    ELSE IF id.number <= h
         THEN {Some(Header(id.number, nb)) : nb \in BOOLEAN}
         ELSE {None}

\* struct AccountInfo
AccountInfo(balance, nonce, code) ==
    [balance |-> balance, nonce |-> nonce, code_hash |-> <<"keccak256", code>>,
     code |-> code]

\* The remote chain's account at address a, at block n.
RemoteAccount(a, n) ==
    IF a = "a1" THEN AccountInfo(7, 1, Some("remote_code"))
    ELSE AccountInfo(n, 0, None)

\* The remote chain's slot 0 of address a, at block n: it changes every block.
RemoteStorage(a, n) == IF a = "a1" THEN 10 + n ELSE 0

\* ---------------------------------------------------------------- try_join!
MutJoinIgnoresGasPrice(rd) ==
    IF rd.chain_id = "err" \/ rd.block = "err" THEN "err"
    ELSE IF rd.chain_id = "ok" /\ rd.block = "ok"
            /\ rd.gas_price \in {"ok", "err"} THEN "ready"
    ELSE "pending"

\* tokio::try_join!(...)?: the first failure ends the join, three successes
\* complete it
TryJoin(rd) ==
    IF \E k \in DOMAIN rd : rd[k] = "err" THEN "err"
    ELSE IF \A k \in DOMAIN rd : rd[k] = "ok" THEN "ready"
    ELSE "pending"

\* ---------------------------------------------------------------- environment
MutChainIdFromEndpoint(fc, reported) == reported

\* if let Some(config) = &fork_config { if let Some(chain_id) = config.chain_id
EffectiveChainId(fc, reported) ==
    IF IsSome(fc) /\ IsSome(Unwrap(fc).chain_id)
    THEN Unwrap(Unwrap(fc).chain_id)
    ELSE reported

\* let cfg = ...; let block_env = BlockEnv {..}; let env = Env {..}
BuildEnvRecord(chain_id, b) ==
    [cfg_chain_id |-> chain_id,
     tx_chain_id |-> Some(chain_id),
     number |-> Unwrap(b.number),
     timestamp |-> b.timestamp,
     block_gas_limit |-> b.gas_limit,
     tx_gas_limit |-> b.gas_limit]

\* EvmOpts { fork_url, fork_block_number, .. }: the backend pins the given block,
\* or the chain's head when it is spawned
ForkBlockOf(fc, h) ==
    IF IsSome(fc) /\ IsSome(Unwrap(fc).block_number)
    THEN Unwrap(Unwrap(fc).block_number)
    ELSE h

\* the route's options: Some(ExecutionOptions { trace_mode }) when the request
\* names a trace mode
RouteOptions(tm) == IF IsSome(tm) THEN Some([trace_mode |-> tm]) ELSE None

\* .trace_mode(forge::traces::TraceMode::Call): the function under
\* gas/execute_calldatas_fork.rs takes no options and sets the mode itself
ExecutorTraceMode == "Call"

\* ---------------------------------------------------------------- backend
MutInsertKeepsRemoteCode(accs, a, info, blk) ==
    IF IsSome(RemoteAccount(a, blk).code)
    THEN [accs EXCEPT ![a] = Some(RemoteAccount(a, blk))]
    ELSE [accs EXCEPT ![a] = Some(info)]

MutInsertSetsCodeOnly(accs, a, info, blk) ==
    [accs EXCEPT ![a] = Some([RemoteAccount(a, blk) EXCEPT
                                 !.code = info.code,
                                 !.code_hash = info.code_hash])]

\* executor.backend_mut().insert_account_info(address, AccountInfo {..})
InsertAccountInfo(accs, a, info, blk) == [accs EXCEPT ![a] = Some(info)]

\* The backend's read of an account: the cache first, the endpoint on a miss.
Basic(accs, a, blk) ==
    IF IsSome(accs[a]) THEN Unwrap(accs[a]) ELSE RemoteAccount(a, blk)

\* The backend's read of slot 0: the cache first, the endpoint on a miss.
StorageRead(stor, a, blk) ==
    IF IsSome(stor) THEN Unwrap(stor) ELSE RemoteStorage(a, blk)

\* ---------------------------------------------------------------- the VM
\* The run of the code at the target on one call: what it returns and the word
\* it leaves to be written to slot 0.
RunCode(code, cd, slot, e) ==
    IF code = Some(StorageCode)
    THEN CASE cd.sel = "set" ->
                [exit_reason |-> "Stop", reverted |-> FALSE, result |-> <<>>,
                 logs |-> <<cd.arg>>, write |-> Some(cd.arg)]
           [] cd.sel = "get" ->
                [exit_reason |-> "Return", reverted |-> FALSE, result |-> <<slot>>,
                 logs |-> <<>>, write |-> None]
           [] cd.sel = "getBlockNumber" ->
                [exit_reason |-> "Return", reverted |-> FALSE,
                 result |-> <<e.number>>, logs |-> <<>>, write |-> None]
           [] OTHER ->
                [exit_reason |-> "Revert", reverted |-> TRUE, result |-> <<>>,
                 logs |-> <<>>, write |-> None]
    ELSE IF code = None
    THEN [exit_reason |-> "Stop", reverted |-> FALSE, result |-> <<>>,
          logs |-> <<>>, write |-> None]
    ELSE [exit_reason |-> "Revert", reverted |-> TRUE, result |-> <<>>,
          logs |-> <<>>, write |-> None]

TouchesStorage(code, cd) == code = Some(StorageCode) /\ cd.sel \in {"set", "get"}

MutNoCommit(cached, write) == cached

\* transact_raw commits the state the call leaves
Commit(cached, write) == IF IsSome(write) THEN write ELSE cached

\* executor.transact_raw(call.caller, address, call.calldata, call.value): the
\* caller's account, the target's account and the slot the code touches are
\* read through the backend in this order; fail names the read the endpoint
\* does not answer ("none": it answers them all).
TransactRaw(c, target, accs, stor, e, blk, fail) ==
    LET miss_caller == ~IsSome(accs[c.caller])
        accs1 == [accs EXCEPT ![c.caller] = Some(Basic(accs, c.caller, blk))]
        miss_target == ~IsSome(accs1[target])
        accs2 == [accs1 EXCEPT ![target] = Some(Basic(accs1, target, blk))]
        code == Unwrap(accs2[target]).code
        touches == TouchesStorage(code, c.calldata)
        miss_slot == touches /\ ~IsSome(stor)
        stor1 == IF touches THEN Some(StorageRead(stor, target, blk)) ELSE stor
        r == RunCode(code, c.calldata, StorageRead(stor, target, blk), e)
        failed(accounts, n) ==
            [err |-> TRUE, fetches |-> n, accounts |-> accounts, storage |-> stor,
             raw |-> [exit_reason |-> "", reverted |-> FALSE, result |-> <<>>,
                      logs |-> <<>>, traces |-> None]]
        n1 == IF miss_caller THEN 1 ELSE 0
        n2 == n1 + (IF miss_target THEN 1 ELSE 0)
        n3 == n2 + (IF miss_slot THEN 1 ELSE 0)
    IN  IF miss_caller /\ fail = "caller" THEN failed(accs, n1)
        ELSE IF miss_target /\ fail = "target" THEN failed(accs1, n2)
        ELSE IF miss_slot /\ fail = "slot" THEN failed(accs2, n3)
        ELSE [err |-> FALSE, fetches |-> n3,
              accounts |-> accs2, storage |-> Commit(stor1, r.write),
              raw |-> [exit_reason |-> r.exit_reason, reverted |-> r.reverted,
                       result |-> r.result, logs |-> r.logs,
                       traces |-> IF ExecutorTraceMode = "None" THEN None
                                  ELSE Some(ExecutorTraceMode)]]

\* Ok(ExecutionResult { .. }); gas metering is left to the VM and not modelled
ToExecutionResult(r) ==
    [exit_reason |-> r.exit_reason, reverted |-> r.reverted, result |-> r.result,
     logs |-> r.logs,
     traces |-> IF IsSome(r.traces) THEN Unwrap(r.traces) ELSE "empty"]

MutAbortsOnRevert(t) == t.err \/ t.raw.reverted

\* the ? on transact_raw: an Err leaves the closure, an Ok(r) goes on, reverted
\* or not
Aborts(t) == t.err

MutCollectDropsReverted(rs, r) == IF r.reverted THEN rs ELSE Append(rs, r)

\* .map(..).collect(): the results in the order the iterator yields the calls
Collect(rs, r) == Append(rs, r)

MutReturnRejectsEmpty(rs) == IF rs = <<>> THEN Err("no calls") ELSE Ok(rs)

\* collect() of an iterator that ran out without an Err
Returned(rs) == Ok(rs)

\* ---------------------------------------------------------------- state
Start(tms) ==
    /\ trace_mode \in tms
    /\ env_vars \in Environments
    /\ address \in Addrs
    /\ calls \in SeqsUpTo(Call, MaxCalls)
    /\ fork_config \in {None} \cup {Some(fc) : fc \in ForkConfig}
    /\ head = 1
    /\ pc = "resolve"
    /\ rpc = None
    /\ rpc_source = "none"
    /\ block_id = None
    /\ reads = [gas_price |-> "idle", chain_id |-> "idle", block |-> "idle"]
    /\ rpc_chain_id = None
    /\ block = None
    /\ env = None
    /\ fork_block = None
    /\ db_accounts = [a \in Addrs |-> None]
    /\ db_storage = None
    /\ next_call = 1
    /\ results = <<>>
    /\ outcome = Pending
    /\ net_requests = 0
    /\ vm_calls = 0

\* A request that names no trace mode.
Init == Start({None})

\* Requests to the default endpoint, with every trace mode the route accepts.
InitTrace == Start(TraceModes) /\ fork_config = None

\* The remote chain grows while the request runs; the request observes the
\* head up to the spawning of the backend, which pins its block.
HeadAdvance ==
    /\ pc \in {"resolve", "issue", "join", "joined", "spawn"}
    /\ head < MaxHead
    /\ head' = head + 1
    /\ UNCHANGED <<request, pc, rpc, rpc_source, block_id, reads, rpc_chain_id,
                   block, env, fork_block, db_accounts, db_storage, next_call,
                   results, outcome, net_requests, vm_calls>>

\* lines 98-134: the endpoint, the provider and the block id
Resolve ==
    /\ pc = "resolve"
    /\ LET r == ResolveRpc(fork_config, env_vars)
       IN  /\ rpc_source' = r.source
           /\ IF ~r.ok
              THEN /\ outcome' = Err(r.msg)
                   /\ pc' = "done"
                   /\ UNCHANGED <<rpc, block_id>>
              ELSE /\ rpc' = Some(r.url)
                   /\ IF ParseUrl(r.url)
                      THEN /\ block_id' = Some(BlockIdOf(fork_config))
                           /\ pc' = "issue"
                           /\ UNCHANGED outcome
                      ELSE /\ outcome' = Err("invalid url")
                           /\ pc' = "done"
                           /\ UNCHANGED block_id
    /\ UNCHANGED <<request, head, reads, rpc_chain_id, block, env, fork_block,
                   db_accounts, db_storage, next_call, results, net_requests,
                   vm_calls>>

\* line 139: the three requests of try_join! are sent
IssueReads ==
    /\ pc = "issue"
    /\ reads' = [gas_price |-> "pending", chain_id |-> "pending", block |-> "pending"]
    /\ net_requests' = net_requests + 3
    /\ pc' = "join"
    /\ UNCHANGED <<request, head, rpc, rpc_source, block_id, rpc_chain_id, block,
                   env, fork_block, db_accounts, db_storage, next_call, results,
                   outcome, vm_calls>>

\* What try_join! does once the future k has completed with status st.
Joined(k, st) ==
    /\ reads' = [reads EXCEPT ![k] = st]
    /\ LET j == TryJoin(reads')
       IN  /\ pc' = CASE j = "err" -> "done" [] j = "ready" -> "joined"
                      [] OTHER -> "join"
           /\ outcome' = IF j = "err" THEN Err("provider") ELSE outcome

\* provider.get_gas_price() completes
GasPriceDone ==
    /\ pc = "join"
    /\ reads.gas_price = "pending"
    /\ \E st \in {"ok", "err"} : Joined("gas_price", st)
    /\ UNCHANGED <<request, head, rpc, rpc_source, block_id, rpc_chain_id, block,
                   env, fork_block, db_accounts, db_storage, next_call, results,
                   net_requests, vm_calls>>

\* provider.get_chain_id() completes
ChainIdDone ==
    /\ pc = "join"
    /\ reads.chain_id = "pending"
    /\ \/ /\ Joined("chain_id", "ok")
          /\ rpc_chain_id' = Some(RemoteChainId(Unwrap(rpc)))
       \/ /\ Joined("chain_id", "err")
          /\ UNCHANGED rpc_chain_id
    /\ UNCHANGED <<request, head, rpc, rpc_source, block_id, block, env,
                   fork_block, db_accounts, db_storage, next_call, results,
                   net_requests, vm_calls>>

\* provider.get_block(block_id, ..) completes
BlockDone ==
    /\ pc = "join"
    /\ reads.block = "pending"
    /\ \/ /\ Joined("block", "ok")
          /\ block' \in RemoteBlocks(Unwrap(block_id), head)
       \/ /\ Joined("block", "err")
          /\ UNCHANGED block
    /\ UNCHANGED <<request, head, rpc, rpc_source, block_id, rpc_chain_id, env,
                   fork_block, db_accounts, db_storage, next_call, results,
                   net_requests, vm_calls>>

\* lines 145-182: the chain id override, the block check and the environment
BuildEnv ==
    /\ pc = "joined"
    /\ rpc_chain_id' = Some(EffectiveChainId(fork_config, Unwrap(rpc_chain_id)))
    /\ IF block = None
       THEN /\ outcome' = Err("block not found")
            /\ pc' = "done"
            /\ UNCHANGED env
       ELSE IF Unwrap(block).number = None
       THEN /\ outcome' = Panic("block number not found")
            /\ pc' = "done"
            /\ UNCHANGED env
       ELSE /\ env' = Some(BuildEnvRecord(Unwrap(rpc_chain_id'), Unwrap(block)))
            /\ pc' = "spawn"
            /\ UNCHANGED outcome
    /\ UNCHANGED <<request, head, rpc, rpc_source, block_id, reads, block,
                   fork_block, db_accounts, db_storage, next_call, results,
                   net_requests, vm_calls>>

\* lines 183-192: opts.evm_env().await? asks the endpoint again, then the
\* backend is spawned on the fork
SpawnBackend ==
    /\ pc = "spawn"
    /\ net_requests' = net_requests + 1
    /\ \/ /\ outcome' = Err("provider")
          /\ pc' = "done"
          /\ UNCHANGED fork_block
       \/ /\ fork_block' = Some(ForkBlockOf(fork_config, head))
          /\ pc' = "inject"
          /\ UNCHANGED outcome
    /\ UNCHANGED <<request, head, rpc, rpc_source, block_id, reads, rpc_chain_id,
                   block, env, db_accounts, db_storage, next_call, results,
                   vm_calls>>

\* lines 193-205: the executor is built and the bytecode is injected
Inject ==
    /\ pc = "inject"
    /\ db_accounts' = InsertAccountInfo(db_accounts, address,
                                        AccountInfo(0, 0, Some(StorageCode)),
                                        Unwrap(fork_block))
    /\ pc' = "exec"
    /\ UNCHANGED <<request, head, rpc, rpc_source, block_id, reads, rpc_chain_id,
                   block, env, fork_block, db_storage, next_call, results,
                   outcome, net_requests, vm_calls>>

\* lines 210-223, one turn of the iterator: the call is run and its result kept,
\* or the Err of transact_raw ends the collection
ExecCall ==
    /\ pc = "exec"
    /\ next_call <= Len(calls)
    /\ \E fail \in {"none", "caller", "target", "slot"} :
         LET t == TransactRaw(calls[next_call], address, db_accounts, db_storage,
                              Unwrap(env), Unwrap(fork_block), fail)
         IN  /\ vm_calls' = vm_calls + 1
             /\ net_requests' = net_requests + t.fetches
             /\ db_accounts' = t.accounts
             /\ db_storage' = t.storage
             /\ IF Aborts(t)
                THEN /\ outcome' = Err("database")
                     /\ pc' = "done"
                     /\ UNCHANGED <<results, next_call>>
                ELSE /\ results' = Collect(results, ToExecutionResult(t.raw))
                     /\ next_call' = next_call + 1
                     /\ UNCHANGED <<outcome, pc>>
    /\ UNCHANGED <<request, head, rpc, rpc_source, block_id, reads, rpc_chain_id,
                   block, env, fork_block>>

\* lines 210-223: the iterator is exhausted and collect() returns the list
Return ==
    /\ pc = "exec"
    /\ next_call > Len(calls)
    /\ outcome' = Returned(results)
    /\ pc' = "done"
    /\ UNCHANGED <<request, head, rpc, rpc_source, block_id, reads, rpc_chain_id,
                   block, env, fork_block, db_accounts, db_storage, next_call,
                   results, net_requests, vm_calls>>

Next ==
    \/ HeadAdvance
    \/ Resolve
    \/ IssueReads
    \/ GasPriceDone
    \/ ChainIdDone
    \/ BlockDone
    \/ BuildEnv
    \/ SpawnBackend
    \/ Inject
    \/ ExecCall
    \/ Return

Spec == Init /\ [][Next]_vars

SpecTrace == InitTrace /\ [][Next]_vars

\* ---------------------------------------------------------------- properties
\* The backend was spawned and the bytecode injected.
Injected == IsSome(fork_block) /\ pc \in {"exec", "done"}

\* What the entry of a call to the injected contract must look like.
EntryOf(c, r) ==
    CASE c.calldata.sel = "set" ->
            /\ ~r.reverted /\ r.exit_reason = "Stop"
            /\ r.logs = <<c.calldata.arg>> /\ r.result = <<>>
      [] c.calldata.sel = "get" ->
            ~r.reverted /\ r.exit_reason = "Return" /\ Len(r.result) = 1
      [] c.calldata.sel = "getBlockNumber" ->
            ~r.reverted /\ r.result = <<Unwrap(env).number>>
      [] OTHER ->
            r.reverted /\ r.exit_reason = "Revert" /\ r.result = <<>>

\* C1: a returned result list has one entry per input call, entry i being the
\* outcome of call i; a call that reverts has its own entry, reverted = true.
C1_OneResultPerCall ==
    outcome.tag = "ok" =>
        /\ Len(outcome.value) = Len(calls)
        /\ \A i \in 1..Len(calls) : EntryOf(calls[i], outcome.value[i])

C1_Witness ==
    /\ outcome.tag = "ok"
    /\ Len(calls) = 2
    /\ calls[1].calldata.sel = "unknown"
    /\ outcome.value[1].reverted
    /\ calls[2].calldata.sel = "set"
    /\ ~outcome.value[2].reverted

\* The last set(v) among the first n calls, 0 when there is none.
LastSet(n) ==
    LET S == {i \in 1..n : calls[i].calldata.sel = "set"}
    IN  IF S = {} THEN 0 ELSE CHOOSE i \in S : \A j \in S : j <= i

\* C2: the calls run in input order on one backend, and a get() returns the
\* word the latest earlier set(v) stored.
C2_StateCarriesForward ==
    /\ pc = "exec" => Len(results) = next_call - 1
    /\ \A j \in 1..Len(results) :
         (calls[j].calldata.sel = "get" /\ LastSet(j) > 0)
            => results[j].result = <<calls[LastSet(j)].calldata.arg>>

C2_Witness ==
    /\ outcome.tag = "ok"
    /\ address = "a1"
    /\ Len(calls) = 2
    /\ calls[1].calldata.sel = "set"
    /\ calls[2].calldata.sel = "get"
    /\ outcome.value[2].result = <<calls[1].calldata.arg>>

\* C3: a call that reverts, every read it needs being cached, gets an entry
\* with reverted = true, leaves slot 0 as it was and lets the iterator go on
\* to the next call.
C3_RevertDoesNotAbort ==
    [][(/\ pc = "exec"
        /\ next_call <= Len(calls)
        /\ calls[next_call].calldata.sel = "unknown"
        /\ IsSome(db_accounts[calls[next_call].caller])
        /\ vm_calls' = vm_calls + 1)
       => (/\ pc' = "exec"
           /\ outcome' = Pending
           /\ next_call' = next_call + 1
           /\ Len(results') = next_call
           /\ results'[next_call].reverted
           /\ db_storage' = db_storage)]_vars

C3_Witness ==
    /\ outcome.tag = "ok"
    /\ Len(calls) = 2
    /\ calls[1].calldata.sel = "unknown"
    /\ calls[2].calldata.sel = "get"
    /\ outcome.value[1].reverted
    /\ outcome.value[2].exit_reason = "Return"

\* The registry entry of a chain id, read off the process environment.
RegistryEntry(c) ==
    CASE c = 8453 -> env_vars["BASE_RPC"]
      [] c = 1 -> env_vars["ETH_RPC"]
      [] OTHER -> None

\* C4: the endpoint is forkConfig.rpcUrl when it is present; else the registry
\* entry of forkConfig.chainId when that is present; else the default endpoint.
C4_ResolutionOrder ==
    pc # "resolve" =>
        LET url == IF IsSome(fork_config) THEN Unwrap(fork_config).rpc_url ELSE None
            cid == IF IsSome(fork_config) THEN Unwrap(fork_config).chain_id ELSE None
        IN  IF IsSome(url)
            THEN rpc_source = "explicit" /\ rpc = url
            ELSE IF IsSome(cid)
            THEN rpc_source = "registry" /\ rpc = RegistryEntry(Unwrap(cid))
            ELSE rpc_source = "default" /\ rpc = env_vars["BASE_RPC"]

C4_Witness ==
    /\ pc = "join"
    /\ IsSome(fork_config)
    /\ Unwrap(fork_config).rpc_url = Some("custom_url")
    /\ Unwrap(fork_config).chain_id = Some(1)
    /\ env_vars["ETH_RPC"] = Some("eth_url")
    /\ rpc = Some("custom_url")

\* The request names a chain without registry entry and no URL, or names no
\* endpoint while the default one is unset.
ConfigurationError ==
    LET url == IF IsSome(fork_config) THEN Unwrap(fork_config).rpc_url ELSE None
        cid == IF IsSome(fork_config) THEN Unwrap(fork_config).chain_id ELSE None
    IN  /\ url = None
        /\ IF IsSome(cid) THEN RegistryEntry(Unwrap(cid)) = None
           ELSE env_vars["BASE_RPC"] = None

\* C5: on a configuration error no request is sent to the endpoint and no call
\* is executed, and the request fails.
C5_ConfigErrorBeforeAnyWork ==
    ConfigurationError =>
        /\ net_requests = 0
        /\ vm_calls = 0
        /\ pc \in {"resolve", "done"}
        /\ pc = "done" =>
             /\ outcome.tag = "err"
             /\ outcome.msg \in {"No RPC URL configured for chain ID",
                                 "BASE_RPC environment variable not set"}

C5_Witness ==
    /\ pc = "done"
    /\ outcome = Err("No RPC URL configured for chain ID")
    /\ IsSome(fork_config)
    /\ Unwrap(fork_config).chain_id = Some(999)
    /\ env_vars["BASE_RPC"] = Some("base_url")
    /\ calls # <<>>

\* C6: the chain id of the environment the calls run in is forkConfig.chainId
\* when it is supplied, whatever the endpoint reports, and the endpoint's
\* chain id otherwise.
C6_ChainIdOverride ==
    IsSome(env) =>
        LET cid == IF IsSome(fork_config) THEN Unwrap(fork_config).chain_id ELSE None
            used == IF IsSome(cid) THEN Unwrap(cid)
                    ELSE RemoteChainId(Unwrap(rpc))
        IN  /\ Unwrap(env).cfg_chain_id = used
            /\ Unwrap(env).tx_chain_id = Some(used)
            /\ rpc_chain_id = Some(used)

C6_Witness ==
    /\ vm_calls = 2
    /\ outcome.tag = "ok"
    /\ IsSome(fork_config)
    /\ Unwrap(fork_config).rpc_url = Some("custom_url")
    /\ Unwrap(fork_config).chain_id = Some(1)
    /\ RemoteChainId(Unwrap(rpc)) # 1
    /\ Unwrap(env).cfg_chain_id = 1

\* C7: once injected, the account at address reports the supplied code and its
\* hash, whatever the chain holds there and whatever is fetched later.
C7_InjectedCodeFixed ==
    Injected =>
        /\ IsSome(db_accounts[address])
        /\ Basic(db_accounts, address, Unwrap(fork_block)).code = Some(StorageCode)
        /\ Basic(db_accounts, address, Unwrap(fork_block)).code_hash
              = <<"keccak256", Some(StorageCode)>>

C7_Witness ==
    /\ Injected
    /\ address = "a1"
    /\ RemoteAccount(address, Unwrap(fork_block)).code = Some("remote_code")
    /\ vm_calls = 2
    /\ IsSome(db_accounts["a2"])
    /\ IsSome(db_storage)
    /\ Unwrap(db_accounts[address]).code = Some(StorageCode)

\* C8 as stated: once a call has been executed, the request does not fail.
C8_Original == vm_calls > 0 => outcome.tag # "err"

\* C8, amended: configuration errors and the errors of the reads before the
\* backend fail the request before the first call; a call that reverts is an
\* entry of the result list; a request that fails after execution started
\* fails at a call whose read of remote state the endpoint did not answer,
\* and returns no result of the earlier calls.
C8_FailuresAfterStart ==
    /\ (outcome.tag = "err" /\ outcome.msg # "database") => vm_calls = 0
    /\ \A i \in 1..Len(results) :
         calls[i].calldata.sel = "unknown" => results[i].reverted
    /\ (outcome.tag = "err" /\ vm_calls > 0) =>
         LET c == calls[next_call]
         IN  /\ outcome = Err("database")
             /\ vm_calls = next_call
             /\ Len(results) = next_call - 1
             /\ \/ ~IsSome(db_accounts[c.caller])
                \/ c.calldata.sel \in {"set", "get"} /\ db_storage = None

C8_Witness ==
    /\ outcome = Err("database")
    /\ vm_calls = 2
    /\ Len(results) = 1
    /\ results[1].reverted
    /\ calls[2].calldata.sel = "get"
    /\ db_storage = None

\* C9: the three reads are in flight together; if one of them fails, or the
\* block is absent, the request fails with no environment built and no call
\* executed; the environment is built only after all three succeeded.
C9_ReadsJoinedBeforeExecution ==
    /\ (\E k \in DOMAIN reads : reads[k] = "err") =>
          /\ pc = "done" /\ outcome = Err("provider")
          /\ env = None /\ vm_calls = 0
    /\ (reads.block = "ok" /\ block = None) =>
          /\ env = None /\ vm_calls = 0
          /\ pc = "done" => outcome \in {Err("block not found"), Err("provider")}
    /\ (IsSome(env) \/ vm_calls > 0) =>
          /\ \A k \in DOMAIN reads : reads[k] = "ok"
          /\ block # None

C9_Witness ==
    /\ pc = "done"
    /\ reads = [gas_price |-> "ok", chain_id |-> "ok", block |-> "err"]
    /\ outcome = Err("provider")
    /\ calls # <<>>

\* C10 as stated: an empty call sequence yields an empty result list.
C10_Original == (calls = <<>> /\ pc = "done") => outcome = Ok(<<>>)

\* C10, amended: for an empty call sequence no call is executed; the endpoint
\* is resolved, read and forked as for any request, and when all of that
\* succeeds the result is the empty list.
C10_EmptyCalls ==
    calls = <<>> =>
        /\ vm_calls = 0
        /\ (pc = "done" /\ Injected) => outcome = Ok(<<>>)
        /\ (pc = "done" /\ ~Injected) => outcome.tag \in {"err", "panic"}

C10_Witness ==
    /\ calls = <<>>
    /\ outcome = Ok(<<>>)
    /\ net_requests = 4

\* C11: the requested trace mode governs tracing: with traceMode absent or
\* "none" every result carries an empty trace, and a trace is populated only
\* under call, jump, jumpSimple or debug.
C11_Original ==
    outcome.tag = "ok" =>
        \A i \in 1..Len(outcome.value) :
            /\ trace_mode \in {None, Some("none")}
                  => outcome.value[i].traces = "empty"
            /\ outcome.value[i].traces # "empty"
                  => /\ RouteOptions(trace_mode) # None
                     /\ trace_mode \in {Some("call"), Some("jump"),
                                        Some("jumpSimple"), Some("debug")}

\* The block number the request names, if any.
RequestedBlock ==
    IF IsSome(fork_config) THEN Unwrap(fork_config).block_number ELSE None

\* The environment's number, timestamp and gas limit are those of the header
\* the endpoint answered, which is the requested block's when one is named.
C12_EnvFromBlock ==
    IsSome(env) =>
        LET e == Unwrap(env)
        IN  /\ IsSome(block)
            /\ Unwrap(block).number = Some(e.number)
            /\ e.timestamp = Header(e.number, TRUE).timestamp
            /\ e.block_gas_limit = Header(e.number, TRUE).gas_limit
            /\ IsSome(RequestedBlock) => e.number = Unwrap(RequestedBlock)

\* C12: with forkConfig.blockNumber present the header that seeds the
\* environment is the header of that block, never the head's; with it absent
\* the header is the one of the chain's head when the block read is answered.
C12_BlockSelection ==
    [][/\ (reads.block = "pending" /\ reads'.block = "ok" /\ IsSome(block'))
            => \E nb \in BOOLEAN :
                 Unwrap(block') = Header(IF IsSome(RequestedBlock)
                                         THEN Unwrap(RequestedBlock) ELSE head, nb)
       /\ C12_EnvFromBlock']_vars

C12_Witness ==
    /\ outcome.tag = "ok"
    /\ RequestedBlock = Some(1)
    /\ head = 2
    /\ Unwrap(env).number = 1
    /\ Len(calls) = 1
    /\ calls[1].calldata.sel = "getBlockNumber"
    /\ outcome.value[1].result = <<1>>

\* C13: every account, storage and code value fetched from the endpoint is read
\* at the block whose header seeded the environment, also when no block number
\* is supplied and the head advances before the backend is built.
C13_Original ==
    (IsSome(fork_block) /\ IsSome(env)) =>
        LET n == Unwrap(env).number
        IN  /\ fork_block = Some(n)
            /\ \A a \in Addrs \ {address} :
                 IsSome(db_accounts[a]) => db_accounts[a] = Some(RemoteAccount(a, n))
            /\ \A j \in 1..Len(results) :
                 (calls[j].calldata.sel = "get" /\ LastSet(j) = 0)
                    => results[j].result = <<RemoteStorage(address, n)>>

\* C14: injection replaces the whole account record of address: before the
\* first call its balance and nonce are zero whatever the chain holds there,
\* and the records of the other addresses are as they were before injection.
C14_InjectionReplacesAccount ==
    [][(pc = "inject" /\ pc' = "exec") =>
          /\ db_accounts'[address]
                = Some([balance |-> 0, nonce |-> 0, code |-> Some(StorageCode),
                        code_hash |-> <<"keccak256", Some(StorageCode)>>])
          /\ \A a \in Addrs \ {address} : db_accounts'[a] = db_accounts[a]
          /\ db_storage' = db_storage
          /\ vm_calls' = 0]_vars

C14_Witness ==
    /\ pc = "exec"
    /\ vm_calls = 0
    /\ address = "a1"
    /\ RemoteAccount(address, Unwrap(fork_block)).balance = 7
    /\ RemoteAccount(address, Unwrap(fork_block)).nonce = 1
    /\ Unwrap(db_accounts[address]).balance = 0
    /\ Unwrap(db_accounts[address]).nonce = 0
    /\ db_accounts["a2"] = None
====
